---------------------------- MODULE Spec2Model ----------------------------
(***************************************************************************)
(* Fourier-transform option pricing notebooks (Merton jump diffusion,      *)
(* Heston, barrier options).                                               *)
(*                                                                         *)
(* Number representation.  Real numbers that the code computes exactly    *)
(* from its inputs are rationals <<num, den>> with den > 0.  Frequencies   *)
(* (dxi, xi) are rational multiples of pi: the pair is the coefficient of  *)
(* pi.  Values that depend on exp/log are kept as IEEE-754 classes (see    *)
(* the section "IEEE classes").                                            *)
(***************************************************************************)
EXTENDS Integers, Sequences, FiniteSets, TLC

(***************************************************************************)
(* Bounds of the model.                                                    *)
(***************************************************************************)
MaxWidth == 3
MaxGrid == 5
MaxLevel == 1
MaxLog2 == 2
MaxShift == 1
MaxSteps == 2
MaxIter == 3
MaxComp == 2
\* np.round(Vc, 5): the prices are printed, and compared, to 5 decimals
Decimals == 5

VARIABLES
    pc,       \* position in the notebook: the next cell step to run
    xwidth,   \* width of the support in real space
    ngrid,    \* requested number of grid points
    N,        \* int(ngrid/2)
    dx,       \* real-space step
    x,        \* real-space grid
    dxi,      \* frequency step (coefficient of pi)
    xi,       \* frequency grid (coefficients of pi)
    pay,      \* the last call of payoff: its arguments and what it returned
    discount, \* np.exp(-r*T)
    Gc,       \* samples of the payoff transform (Gaussian integers <<re, im>>)
    psi_c,    \* samples of the damped characteristic function
    c_S,      \* the array c (prices on the grid S) of the last pricing cell run
    Vc,       \* the value each pricing cell printed: cell |-> value
    psi,      \* samples of the undamped characteristic function
    f,        \* the recovered density
    cf,       \* the last evaluation of a characteristic function
    S0_global, \* the notebook global S0 (log-price level)
    bar,      \* the last call of barrier_analytical: arguments and prices
    mc,       \* the run of barrier_mc
    mj,       \* the last call of merton_jump_analytical
    damp      \* the damped characteristic functions and payoff transforms of a cell

gridVars == <<xwidth, ngrid, N, dx, x, dxi, xi>>
priceVars == <<discount, Gc, psi_c, c_S, Vc, psi, f, cf>>
barrierVars == <<S0_global, bar, mc, mj, damp>>
vars == <<pc, xwidth, ngrid, N, dx, x, dxi, xi, pay, discount, Gc, psi_c, c_S, Vc, psi, f, cf,
          S0_global, bar, mc, mj, damp>>

(***************************************************************************)
(* Rationals                                                               *)
(***************************************************************************)
RECURSIVE Gcd(_, _)
Gcd(m, n) == IF n = 0 THEN m ELSE Gcd(n, m % n)
Abs(n) == IF n < 0 THEN -n ELSE n

\* a fraction n/d, d > 0, in lowest terms
Rat(n, d) == <<n \div Gcd(Abs(n), d), d \div Gcd(Abs(n), d)>>
RMul(p, q) == Rat(p[1] * q[1], p[2] * q[2])
REq(p, q) == p[1] * q[2] = q[1] * p[2]
RLt(p, q) == p[1] * q[2] < q[1] * p[2]
RAdd(p, q) == Rat(p[1] * q[2] + q[1] * p[2], p[2] * q[2])
RNeg(p) == <<-p[1], p[2]>>
RSub(p, q) == RAdd(p, RNeg(q))
RSgn(p) == IF p[1] > 0 THEN 1 ELSE IF p[1] < 0 THEN -1 ELSE 0
RZero(p) == p[1] = 0

(***************************************************************************)
(* IEEE classes.  A floating-point value is one of                         *)
(*   nan, pinf, ninf            the IEEE specials                          *)
(*   num  q                     the rational q, exactly                    *)
(*   exp  q                     e^q for a rational q # 0                   *)
(*   pos, neg                   a finite value of that sign, magnitude     *)
(*                              not tracked                                *)
(*   fin                        a finite value, sign not tracked           *)
(*   bad                        a non-finite value (an infinity or nan),   *)
(*                              which one not tracked                      *)
(* Rounding, overflow and underflow of finite results are not modelled.    *)
(***************************************************************************)
V(c) == [c |-> c, q |-> <<0, 1>>]
VNum(q) == [c |-> "num", q |-> q]
VInt(n) == VNum(<<n, 1>>)
VExp(q) == IF q[1] = 0 THEN VInt(1) ELSE [c |-> "exp", q |-> q]

IsFiniteV(v) == v.c \in {"num", "exp", "pos", "neg", "fin"}
IsZeroV(v) == v.c = "num" /\ v.q[1] = 0

\* 1, -1, 0 for a known sign; 2 when the sign is not tracked
SgnV(v) ==
    CASE v.c = "num" -> RSgn(v.q)
      [] v.c \in {"exp", "pos", "pinf"} -> 1
      [] v.c \in {"neg", "ninf"} -> -1
      [] OTHER -> 2

OfSign(s) == IF s = 1 THEN V("pos") ELSE IF s = -1 THEN V("neg") ELSE V("fin")
InfOfSign(s) == IF s = 1 THEN V("pinf") ELSE IF s = -1 THEN V("ninf") ELSE V("bad")

NegV(v) ==
    CASE v.c = "pinf" -> V("ninf")
      [] v.c = "ninf" -> V("pinf")
      [] v.c = "num" -> VNum(RNeg(v.q))
      [] v.c \in {"exp", "pos"} -> V("neg")
      [] v.c = "neg" -> V("pos")
      [] OTHER -> v

AddV(u, v) ==
    CASE u.c = "nan" \/ v.c = "nan" -> V("nan")
      [] u.c = "bad" \/ v.c = "bad" -> V("bad")
      [] u.c = "pinf" -> IF v.c = "ninf" THEN V("nan") ELSE u
      [] u.c = "ninf" -> IF v.c = "pinf" THEN V("nan") ELSE u
      [] v.c \in {"pinf", "ninf"} -> v
      [] u.c = "num" /\ v.c = "num" -> VNum(RAdd(u.q, v.q))
      [] IsZeroV(u) -> v
      [] IsZeroV(v) -> u
      [] SgnV(u) = SgnV(v) /\ SgnV(u) # 2 -> OfSign(SgnV(u))
      [] OTHER -> V("fin")

\* a value known to be e^q: exp q, or the number 1 = e^0
IsExpV(v) == v.c = "exp" \/ (v.c = "num" /\ REq(v.q, <<1, 1>>))
ExponentV(v) == IF v.c = "exp" THEN v.q ELSE <<0, 1>>

\* e^p - e^q has the sign of p - q
SubV(u, v) ==
    IF IsExpV(u) /\ IsExpV(v)
    THEN (IF REq(ExponentV(u), ExponentV(v)) THEN VInt(0)
          ELSE OfSign(RSgn(RSub(ExponentV(u), ExponentV(v)))))
    ELSE AddV(u, NegV(v))

MulV(u, v) ==
    CASE u.c = "nan" \/ v.c = "nan" -> V("nan")
      [] u.c = "bad" \/ v.c = "bad" -> V("bad")
      [] u.c \in {"pinf", "ninf"} \/ v.c \in {"pinf", "ninf"} ->
            IF IsZeroV(u) \/ IsZeroV(v) THEN V("nan")
            ELSE IF SgnV(u) = 2 \/ SgnV(v) = 2 THEN V("bad")
            ELSE InfOfSign(SgnV(u) * SgnV(v))
      [] u.c = "num" /\ v.c = "num" -> VNum(RMul(u.q, v.q))
      [] IsZeroV(u) \/ IsZeroV(v) -> VInt(0)
      [] u.c = "num" /\ REq(u.q, <<1, 1>>) -> v
      [] v.c = "num" /\ REq(v.q, <<1, 1>>) -> u
      [] SgnV(u) = 2 \/ SgnV(v) = 2 -> V("fin")
      [] OTHER -> OfSign(SgnV(u) * SgnV(v))

\* np.exp of a real whose value is known exactly (or is an IEEE special)
ExpV(v) ==
    CASE v.c = "nan" -> V("nan")
      [] v.c = "pinf" -> V("pinf")
      [] v.c = "ninf" -> VInt(0)
      [] v.c = "num" -> VExp(v.q)

\* Python's max(p, q) and min(p, q) on floats whose values are known exactly:
\* max returns q only if q > p, min returns q only if q < p
GtV(u, v) ==
    CASE u.c = "nan" \/ v.c = "nan" -> FALSE
      [] u.c = "pinf" -> v.c # "pinf"
      [] u.c = "ninf" -> FALSE
      [] v.c = "pinf" -> FALSE
      [] v.c = "ninf" -> TRUE
      [] u.c = "num" /\ v.c = "num" -> RLt(v.q, u.q)
MaxV(p, q) == IF GtV(q, p) THEN q ELSE p
MinV(p, q) == IF GtV(p, q) THEN q ELSE p

(***************************************************************************)
(* Grids in real and Fourier space                                         *)
(***************************************************************************)

\* np.linspace(start, stop, num): num evenly spaced samples, end points included
linspace(start, stop, num) ==
    [i \in 1..num |->
        IF num = 1 THEN Rat(start, 1)
        ELSE Rat(start * (num - 1) + (i - 1) * (stop - start), num - 1)]

\* N = int(ngrid/2)
Half(n) == n \div 2

\* dx = xwidth/ngrid
Step_dx(w, n) == Rat(w, n)

\* dxi = 2*np.pi/xwidth, as a coefficient of pi
Step_dxi(w) == Rat(2, w)

\* x = dx * np.linspace(-N, N-1, 2*N)   (and the same for xi with dxi)
Scaled(step, half) ==
    LET lin == linspace(-half, half - 1, 2 * half)
    IN  [i \in 1..(2 * half) |-> RMul(step, lin[i])]

(***************************************************************************)
(* Complex values: a pair of IEEE classes.  numpy casts a real operand to  *)
(* a complex with imaginary part 0 and multiplies with                     *)
(* (ar*br - ai*bi) + (ar*bi + ai*br)j.                                     *)
(***************************************************************************)
Cx(re, im) == [re |-> re, im |-> im]
OfReal(v) == Cx(v, VInt(0))
CAdd(z, w) == Cx(AddV(z.re, w.re), AddV(z.im, w.im))
CSub(z, w) == Cx(SubV(z.re, w.re), SubV(z.im, w.im))
CMul(z, w) == Cx(SubV(MulV(z.re, w.re), MulV(z.im, w.im)),
                 AddV(MulV(z.re, w.im), MulV(z.im, w.re)))
IsFiniteC(z) == IsFiniteV(z.re) /\ IsFiniteV(z.im)
IsZeroC(z) == IsZeroV(z.re) /\ IsZeroV(z.im)

\* np.exp of a complex (C99 cexp): exp(-inf + iy) is 0 for every y,
\* exp(x + iy) is not finite when x = +inf or when y is not finite
CExp(z) ==
    CASE z.re.c = "nan" -> Cx(V("nan"), V("nan"))
      [] z.re.c = "ninf" -> Cx(VInt(0), VInt(0))
      [] z.re.c = "pinf" ->
            IF IsZeroV(z.im) THEN Cx(V("pinf"), VInt(0))
            ELSE IF IsFiniteV(z.im) THEN Cx(V("bad"), V("bad"))
            ELSE Cx(V("bad"), V("nan"))
      [] IsFiniteV(z.re) ->
            IF IsZeroV(z.im)
            THEN Cx(IF z.re.c = "num" THEN ExpV(z.re) ELSE V("pos"), VInt(0))
            ELSE IF IsFiniteV(z.im) THEN Cx(V("fin"), V("fin"))
            ELSE Cx(V("nan"), V("nan"))

\* a real divided by zero: 0/0 = nan, x/0 = +-inf
DivZeroV(v) ==
    CASE v.c \in {"nan", "pinf", "ninf", "bad"} -> v
      [] IsZeroV(v) -> V("nan")
      [] SgnV(v) = 2 -> V("bad")
      [] OTHER -> InfOfSign(SgnV(v))

\* a real number known exactly, held as a complex
IsExactReal(z) == z.re.c = "num" /\ IsZeroV(z.im)
IsOneC(z) == IsExactReal(z) /\ REq(z.re.q, <<1, 1>>)

\* numpy complex division z / w for a finite divisor w.  A zero divisor
\* divides each component by zero.
CDiv(z, w) ==
    IF IsZeroC(w) THEN Cx(DivZeroV(z.re), DivZeroV(z.im))
    ELSE IF IsZeroC(z) THEN z
    ELSE IF IsExactReal(z) /\ IsExactReal(w)
         THEN OfReal(VNum(IF w.re.q[1] > 0
                          THEN <<z.re.q[1] * w.re.q[2], z.re.q[2] * w.re.q[1]>>
                          ELSE <<-(z.re.q[1] * w.re.q[2]), -(z.re.q[2] * w.re.q[1])>>))
    ELSE IF IsFiniteC(z) THEN Cx(V("fin"), V("fin"))
    ELSE IF z.re.c = "nan" \/ z.im.c = "nan" THEN Cx(V("nan"), V("nan"))
    ELSE Cx(V("bad"), V("bad"))

(***************************************************************************)
(* payoff(x, xi, alpha, K, L, U, C, call): the damped payoff and its       *)
(* Fourier transform.  The prices K, L, U are given by their ratio to the  *)
(* scale C: num 0 (the price 0), exp q (the price C*e^q) or pinf.          *)
(***************************************************************************)

\* np.log of a ratio of prices
LogV(m) ==
    CASE m.c = "num" /\ m.q[1] = 0 -> V("ninf")
      [] m.c = "num" /\ REq(m.q, <<1, 1>>) -> VInt(0)
      [] m.c = "exp" -> VNum(m.q)
      [] m.c = "pinf" -> V("pinf")
      [] m.c = "nan" -> V("nan")
      [] m.c = "pos" -> V("fin")

\* np.maximum(v, 0)
Maximum0(v) ==
    CASE v.c = "nan" -> v
      [] SgnV(v) = 1 -> v
      [] SgnV(v) \in {-1, 0} -> VInt(0)

\* (p >= q).astype(int) for two ratios of prices, compared through their logs
GeInt(p, q) == IF GtV(LogV(q), LogV(p)) \/ p.c = "nan" \/ q.c = "nan" THEN VInt(0) ELSE VInt(1)

\* xi is a rational multiple of pi: its value is 0 or a finite number of the
\* sign of the coefficient
XiV(q) == IF q[1] = 0 THEN VInt(0) ELSE OfSign(RSgn(q))

\* a faulty variant of BoundB: the window bounds are exchanged
BoundBSwapped(l, k, u, call) == IF call = 1 THEN l ELSE u

\* lines 72-77: the integration bounds
BoundA(l, k, u, call) == IF call = 1 THEN MaxV(l, k) ELSE MinV(k, u)
BoundB(l, k, u, call) == IF call = 1 THEN u ELSE l

\* line 79: xi_2 = alpha + 1j*xi
Xi2(xiq, alpha) == Cx(VInt(alpha), XiV(xiq))

\* lines 83-84: np.exp(c * (1 + xi_2)) and np.exp(k + c*xi_2) for a bound c
ExpBound1(xiq, alpha, c) == CExp(CMul(OfReal(c), CAdd(OfReal(VInt(1)), Xi2(xiq, alpha))))
ExpBound2(xiq, alpha, c, k) == CExp(CAdd(OfReal(k), CMul(OfReal(c), Xi2(xiq, alpha))))

\* lines 83-84: the expression of G in its four exponentials
ClosedForm(xiq, alpha, t1, t2, t3, t4, C) ==
    LET xi_2 == Xi2(xiq, alpha)
        one  == CAdd(OfReal(VInt(1)), xi_2)
    IN  CMul(OfReal(C), CSub(CDiv(CSub(t1, t2), one), CDiv(CSub(t3, t4), xi_2)))

\* lines 83-84: the closed form at one frequency
General(xiq, alpha, a, b, k, C) ==
    ClosedForm(xiq, alpha,
               ExpBound1(xiq, alpha, b), ExpBound1(xiq, alpha, a),
               ExpBound2(xiq, alpha, b, k), ExpBound2(xiq, alpha, a, k), C)

\* Both centre values are C times the integral from a to b of a function of
\* the sign of x - k (e^x - e^k at line 88, 1 - e^(k-x) at line 90).  When k
\* is not inside the interval the integrand keeps one sign, and the value
\* has the sign of (b - a) for k below the interval, of (a - b) for k above
\* it; 2 when the sign is not determined this way.
IntegralSign(a, b, k) ==
    IF a.c = "num" /\ b.c = "num" /\ k.c = "num"
    THEN (IF REq(a.q, b.q) THEN 0
          ELSE IF ~RLt(a.q, k.q) /\ ~RLt(b.q, k.q) THEN RSgn(RSub(b.q, a.q))
          ELSE IF ~RLt(k.q, a.q) /\ ~RLt(k.q, b.q) THEN RSgn(RSub(a.q, b.q))
          ELSE 2)
    ELSE 2

\* a finite value whose sign the class arithmetic lost, with the sign s
WithSign(v, s) == IF v.c = "fin" /\ s # 2 THEN OfSign(s) ELSE v

\* line 88: the value written at the centre when alpha == 0
Limit0(a, b, k, C) ==
    MulV(C, WithSign(SubV(SubV(ExpV(b), ExpV(a)), MulV(ExpV(k), SubV(b, a))),
                    IntegralSign(a, b, k)))

\* line 90: the value written at the centre when alpha == -1
LimitM1(a, b, k, C) ==
    MulV(C, WithSign(SubV(AddV(SubV(b, a), ExpV(SubV(k, b))), ExpV(SubV(k, a))),
                    IntegralSign(a, b, k)))

\* a faulty variant of Centre: the entry before the middle
CentreBelow(len) == len \div 2

\* int(np.floor(len(G)/2)), as a 1-based index
Centre(len) == (len \div 2) + 1

\* a faulty variant of Patched: the centre is overwritten whatever alpha is
PatchedAlways(alpha, len) == {Centre(len)}

\* a faulty variant of Patched: the patch for alpha == -1 is forgotten
PatchedOnlyZero(alpha, len) == IF alpha = 0 THEN {Centre(len)} ELSE {}

\* lines 86-90: which entries the singularity patch overwrites
Patched(alpha, len) == IF alpha = 0 \/ alpha = -1 THEN {Centre(len)} ELSE {}

\* lines 58-64: the damped payoff at one log-price
Damped(xq, alpha, K, L, U, C, call) ==
    LET m == VExp(xq)
        d == IF call = 1 THEN SubV(m, K) ELSE SubV(K, m)
    IN  MulV(MulV(MulV(ExpV(VNum(RMul(<<alpha, 1>>, xq))), Maximum0(MulV(C, d))),
                  GeInt(m, L)), GeInt(U, m))

\* a faulty variant of Raised: the damping exponent is validated against the right
RaisedIfInadmissible(alpha, call) ==
    IF (call = 1 /\ alpha <= 0) \/ (call # 1 /\ alpha >= -1)
    THEN "ConfigurationError" ELSE "none"

\* lines 55-92 hold no raise statement: every call returns g, G, S
Raised(alpha, call) == "none"

payoff(xs, xis, alpha, K, L, U, C, call) ==
    IF Raised(alpha, call) # "none"
    THEN [err |-> Raised(alpha, call), g |-> << >>, G |-> << >>, S |-> << >>,
          l |-> V("nan"), k |-> V("nan"), u |-> V("nan"), a |-> V("nan"), b |-> V("nan")]
    ELSE
    LET l == LogV(L)
        k == LogV(K)
        u == LogV(U)
        a == BoundA(l, k, u, call)
        b == BoundB(l, k, u, call)
    IN  [err |-> "none",
         g |-> [i \in 1..Len(xs) |-> Damped(xs[i], alpha, K, L, U, C, call)],
         G |-> [i \in 1..Len(xis) |->
                  IF i \in Patched(alpha, Len(xis))
                  THEN [form |-> IF alpha = 0 THEN "limit0" ELSE "limitm1",
                        v |-> OfReal(IF alpha = 0 THEN Limit0(a, b, k, C)
                                     ELSE LimitM1(a, b, k, C))]
                  ELSE [form |-> "general", v |-> General(xis[i], alpha, a, b, k, C)]],
         S |-> [i \in 1..Len(xs) |-> VExp(xs[i])],
         l |-> l, k |-> k, u |-> u, a |-> a, b |-> b]

(***************************************************************************)
(* Characteristic functions                                                *)
(***************************************************************************)
Imag == Cx(VInt(0), VInt(1))
Sq(z) == CMul(z, z)

\* lines 151-152 and 268-269: the jump-diffusion characteristic function at
\* the frequency xia (lmbda = 0 is the diffusion):
\*   psi = 1j*muRN*xia - 0.5*(sigma*xia)**2
\*         + lmbda*(np.exp(1j*mu_j*xia - 0.5*(sigma_j*xia)**2) - 1)
\*   np.exp(psi*T)
CharExponent(xia, muRN, sigma, lmbda, mu_j, sigma_j) ==
    LET half  == OfReal(VNum(<<1, 2>>))
        drift == CMul(CMul(Imag, OfReal(muRN)), xia)
        diff  == CMul(half, Sq(CMul(OfReal(sigma), xia)))
        jump  == CExp(CSub(CMul(CMul(Imag, OfReal(mu_j)), xia),
                           CMul(half, Sq(CMul(OfReal(sigma_j), xia)))))
    IN  CAdd(CSub(drift, diff),
             CMul(OfReal(lmbda), CSub(jump, OfReal(VInt(1)))))

CharFn(xia, muRN, sigma, lmbda, mu_j, sigma_j, T) ==
    CExp(CMul(CharExponent(xia, muRN, sigma, lmbda, mu_j, sigma_j), OfReal(T)))

\* a faulty variant of Warned: a growing exponent is reported
WarnedIfGrowing(expo) == SgnV(expo.re) = 1

\* lines 150-157 issue no warning, whatever the exponent
Warned(expo) == FALSE

\* the largest a in lo..hi with a * a <= n
RECURSIVE Bisect(_, _, _)
Bisect(n, lo, hi) ==
    IF lo >= hi THEN lo
    ELSE IF ((lo + hi + 1) \div 2) * ((lo + hi + 1) \div 2) <= n
         THEN Bisect(n, (lo + hi + 1) \div 2, hi)
         ELSE Bisect(n, lo, ((lo + hi + 1) \div 2) - 1)
Isqrt(n) == Bisect(n, 0, IF n < 46340 THEN n ELSE 46340)

\* np.sqrt of a complex: the principal root, exact on the square of a
\* rational held as <<n*n, d*d>>
CSqrt(z) ==
    IF z.re.c = "nan" \/ z.im.c = "nan" THEN Cx(V("nan"), V("nan"))
    ELSE IF ~IsFiniteC(z) THEN Cx(V("bad"), V("bad"))
    ELSE IF IsExactReal(z) /\ z.re.q[1] >= 0
              /\ Isqrt(z.re.q[1]) * Isqrt(z.re.q[1]) = z.re.q[1]
              /\ Isqrt(z.re.q[2]) * Isqrt(z.re.q[2]) = z.re.q[2]
         THEN OfReal(VNum(<<Isqrt(z.re.q[1]), Isqrt(z.re.q[2])>>))
    ELSE Cx(V("fin"), V("fin"))

\* np.log of a complex
CLog(z) ==
    IF z.re.c = "nan" \/ z.im.c = "nan" THEN Cx(V("nan"), V("nan"))
    ELSE IF ~IsFiniteC(z) THEN Cx(V("bad"), V("bad"))
    ELSE IF IsOneC(z) THEN Cx(VInt(0), VInt(0))
    ELSE IF IsZeroC(z) THEN Cx(V("ninf"), VInt(0))
    ELSE Cx(V("fin"), V("fin"))

\* part_000 lines 606-622
f_Heston(phi, S0, v0, T, r, q, kappa, theta, sigma, rho, lmbda, j) ==
    LET u    == IF j = 1 THEN VNum(<<1, 2>>) ELSE VNum(<<-1, 2>>)
        b    == IF j = 1 THEN SubV(AddV(kappa, lmbda), MulV(rho, sigma))
                ELSE AddV(kappa, lmbda)
        a    == MulV(kappa, theta)
        sig2 == OfReal(MulV(sigma, sigma))
        rsp  == CMul(OfReal(MulV(MulV(rho, sigma), phi)), Imag)
        d    == CSqrt(CSub(Sq(CSub(rsp, OfReal(b))),
                           CMul(sig2,
                                CSub(CMul(OfReal(MulV(MulV(VInt(2), u), phi)), Imag),
                                     OfReal(MulV(phi, phi))))))
        bmr  == CSub(OfReal(b), rsp)
        g    == CDiv(CAdd(bmr, d), CSub(bmr, d))
        edT  == CExp(CMul(d, OfReal(T)))
        one  == OfReal(VInt(1))
        den  == CSub(one, CMul(g, edT))
        C    == CAdd(CMul(CMul(CMul(OfReal(SubV(r, q)), OfReal(phi)), Imag), OfReal(T)),
                     CMul(CDiv(OfReal(a), sig2),
                          CSub(CMul(CAdd(bmr, d), OfReal(T)),
                               CMul(OfReal(VInt(2)), CLog(CDiv(den, CSub(one, g)))))))
        D    == CMul(CDiv(CAdd(bmr, d), sig2), CDiv(CSub(one, edT), den))
    IN  CExp(CAdd(CAdd(C, CMul(D, OfReal(v0))),
                  CMul(CMul(Imag, OfReal(phi)), OfReal(LogV(S0)))))

(***************************************************************************)
(* Exact discrete Fourier transform.  The samples are Gaussian integers    *)
(* <<re, im>>.  For a length n that is a power of two, a transform value   *)
(* lies in Z[w] with w = exp(-2*pi*i/M), M = max(n, 4): it is the vector   *)
(* of its integer coordinates on 1, w, ..., w^(M/2-1), where w^(M/2) = -1  *)
(* and i = w^(3M/4).  The coordinates are unique.                          *)
(***************************************************************************)
GAdd(g, h) == <<g[1] + h[1], g[2] + h[2]>>
GMul(g, h) == <<g[1] * h[1] - g[2] * h[2], g[1] * h[2] + g[2] * h[1]>>
\* a faulty variant of GConj: the two parts are exchanged
GSwap(g) == <<g[2], g[1]>>

GConj(g) == <<g[1], -g[2]>>

CycM(n) == IF n < 4 THEN 4 ELSE n
Root(M, t) ==
    [m \in 0..((M \div 2) - 1) |->
        IF t % M = m THEN 1 ELSE IF t % M = m + (M \div 2) THEN -1 ELSE 0]
CycAdd(p, q) == [m \in DOMAIN p |-> p[m] + q[m]]
CycScale(k, p) == [m \in DOMAIN p |-> k * p[m]]
\* the Gaussian integer g times w^t
GaussRoot(M, g, t) ==
    CycAdd(CycScale(g[1], Root(M, t)), CycScale(g[2], Root(M, t + 3 * (M \div 4))))

RECURSIVE CycSum(_, _, _)
CycSum(F, j, M) ==
    IF j = 0 THEN [m \in 0..((M \div 2) - 1) |-> 0]
    ELSE CycAdd(CycSum(F, j - 1, M), F[j])

\* a faulty variant of fft: the transform with the opposite sign in the exponent
\* (np.fft.ifft without its 1/n)
fftBackward(u) ==
    LET n == Len(u)
        M == CycM(n)
    IN  [k \in 1..n |->
           CycSum([j \in 1..n |-> GaussRoot(M, u[j], -((M \div n) * (j - 1) * (k - 1)))],
                  n, M)]

\* np.fft.fft(u)[k] = sum_j u[j] * exp(-2*pi*i*j*k/n), indices from 0
fft(u) ==
    LET n == Len(u)
        M == CycM(n)
    IN  [k \in 1..n |->
           CycSum([j \in 1..n |-> GaussRoot(M, u[j], (M \div n) * (j - 1) * (k - 1))],
                  n, M)]

\* np.roll(u, s)[i] = u[(i - s) mod n], indices from 0
roll(u, s) == [i \in 1..Len(u) |-> u[((i - 1 - s) % Len(u)) + 1]]
\* a faulty variant of fftshift: the output is left in FFT order
Unshifted(u) == u

fftshift(u) == roll(u, Len(u) \div 2)
ifftshift(u) == roll(u, -(Len(u) \div 2))

\* np.real of a transform value: its coordinates on cos(2*pi*m/M), 0 <= m < M/4
ReCyc(p) ==
    LET H == Cardinality(DOMAIN p)
    IN  [m \in 0..((H \div 2) - 1) |-> IF m = 0 THEN p[0] ELSE p[m] - p[H - m]]

(***************************************************************************)
(* A real number of the pricing cells: the coordinates r (on the cosines   *)
(* above; r[0] is the rational part) over the common denominator d > 0.    *)
(***************************************************************************)
Real(r, d) == [r |-> r, d |-> d]
Coord(p, m) == IF m \in DOMAIN p.r THEN p.r[m] ELSE 0
RealEq(p, q) ==
    \A m \in (DOMAIN p.r) \cup (DOMAIN q.r) : Coord(p, m) * q.d = Coord(q, m) * p.d
RealSub(p, q) ==
    Real([m \in (DOMAIN p.r) \cup (DOMAIN q.r) |-> Coord(p, m) * q.d - Coord(q, m) * p.d],
         p.d * q.d)
IsRational(p) == \A m \in DOMAIN p.r : m = 0 \/ p.r[m] = 0

\* np.exp(-r*T) * value / xwidth
Discounted(disc, r, w) == Real([m \in DOMAIN r |-> disc[1] * r[m]], disc[2] * w)

\* interp1d(S, c, kind='slinear')(S0) with S = S0*np.exp(x): at a grid point
\* the interpolant takes the value of c there.  S0 lies on the grid where
\* x = log(S0/S0) = 0; elsewhere the weights are not rational.
OffGrid == Real([m \in 0..0 |-> 0], 0)
interp1d(xs, cs, logq) ==
    IF \E i \in 1..Len(xs) : REq(xs[i], logq)
    THEN cs[CHOOSE i \in 1..Len(xs) : REq(xs[i], logq)]
    ELSE OffGrid

\* line 272: f = np.real(np.fft.fftshift(np.fft.fft(np.fft.ifftshift(psi))))/xwidth
Density(ps, w) ==
    LET t == fftshift(fft(ifftshift(ps)))
    IN  [k \in 1..Len(ps) |-> Real(ReCyc(t[k]), w)]

\* lines 166 and 202: the price at every grid point from the integrand v
Plancherel(v, disc, w) ==
    LET t == fftshift(fft(ifftshift(v)))
    IN  [k \in 1..Len(v) |-> Discounted(disc, ReCyc(t[k]), w)]

RECURSIVE GSum(_, _)
GSum(v, j) == IF j = 0 THEN <<0, 0>> ELSE GAdd(GSum(v, j - 1), v[j])

\* a faulty variant of trapz2: the rectangle rule, every sample with weight 1
rect2(v) == GAdd(GSum(v, Len(v)), GSum(v, Len(v)))

\* np.trapz(v) with unit spacing: sum of (v[j] + v[j+1])/2, returned doubled
trapz2(v) ==
    LET pairs == [j \in 1..(Len(v) - 1) |-> GAdd(v[j], v[j + 1])]
    IN  GSum(pairs, Len(v) - 1)

\* line 236: discount * np.real(np.trapz(v)) / xwidth
Trapezoid(v, disc, w) == Real([m \in 0..0 |-> disc[1] * trapz2(v)[1]], 2 * disc[2] * w)

(***************************************************************************)
(* Closed-form barrier prices.  Spot, strike and barrier are given by      *)
(* their logarithms, which are integers (levels).  With v = sigma*sqrt(tau)*)
(* and g = gamma*sigma*sqrt(tau), every argument of norm.cdf in            *)
(* barrier_analytical is sg * (n/v + g + sh*v) for an integer n:           *)
(*   d1: n = s-k   eta: n = 2h-s-k   nu: n = s-h   lmbda: n = h-s          *)
(* and sh = -1 where sigma*sqrt(tau) is subtracted.  A price is a linear   *)
(* combination, with integer coefficients, of the terms                    *)
(*   <<amp, pw, "N", n, sh>>   amp * (H/S)^e * norm.cdf(n/v + g + sh*v)    *)
(*   <<amp, pw, "1", 0, 0>>    amp * (H/S)^e                               *)
(* where amp is "S" for S*exp(-q*tau) and "K" for K*exp(-r*tau), and the   *)
(* power e is 0 when pw = 0, and 2*gamma ("S") or 2*gamma-2 ("K") when     *)
(* pw = 1.  norm.cdf(-y) is 1 - norm.cdf(y), and (H/S)^e is 1 when H = S.  *)
(* A price is the set of its <<term, coefficient>> pairs with non-zero     *)
(* coefficient.  tau > 0 and sigma > 0.                                    *)
(***************************************************************************)
Coef(p, key) == IF \E t \in p : t[1] = key THEN (CHOOSE t \in p : t[1] = key)[2] ELSE 0
Keys(p) == {t[1] : t \in p}
PAdd(p, q) ==
    {<<key, Coef(p, key) + Coef(q, key)>> :
        key \in {kk \in Keys(p) \cup Keys(q) : Coef(p, kk) + Coef(q, kk) # 0}}
PNeg(p) == {<<t[1], -t[2]>> : t \in p}
PSub(p, q) == PAdd(p, PNeg(q))
PZero == {}

\* amp * (H/S)^e * norm.cdf(sg * (n/v + g + sh*v))
Cdf(amp, pw, sg, n, sh) ==
    IF sg = 1 THEN {<<<<amp, pw, "N", n, sh>>, 1>>}
    ELSE {<<<<amp, pw, "1", 0, 0>>, 1>>, <<<<amp, pw, "N", n, sh>>, -1>>}

\* np.sign
Sign(n) == IF n > 0 THEN 1 ELSE IF n < 0 THEN -1 ELSE 0

\* a faulty variant of Complement: the knock-in price is returned again
ComplementSame(vanilla, price) == price

\* C_do = C - C_di and the seven assignments like it
Complement(vanilla, price) == PSub(vanilla, price)

\* a faulty variant of Eta: log(H/(S*K)) in place of log(H**2/(S*K))
EtaSingle(S, K, H) == H - S - K

\* line 216: the numerator np.log((H**2)/(S*K)) of eta, in log-levels
Eta(S, K, H) == 2 * H - S - K

\* lines 211-212: H = H*np.exp(np.sign(H-S0)*0.5826*sigma*np.sqrt(T/n_obs)),
\* shift = 0.5826*sigma*np.sqrt(T/n_obs) > 0, spot = the S0 that line 212 reads
AdjustedBarrier(H, spot, n_obs, shift) ==
    IF n_obs > 0 THEN H + Sign(H - spot) * shift ELSE H

\* part_000 lines 199-261.  S, K, H are the arguments (levels), S0 is the
\* notebook global that line 212 reads, shift the size of the adjustment.
barrier_analytical(S, K, H, n_obs, shift, S0) ==
    LET Hb   == AdjustedBarrier(H, S0, n_obs, shift)
        pw   == IF Hb = S THEN 0 ELSE 1
        d1   == S - K
        eta  == Eta(S, K, Hb)
        nu   == S - Hb
        lam  == Hb - S
        C    == PSub(Cdf("S", 0, 1, d1, 0), Cdf("K", 0, 1, d1, -1))
        P    == PSub(Cdf("K", 0, -1, d1, -1), Cdf("S", 0, -1, d1, 0))
        \* lines 222-223
        Cdi1 == PSub(Cdf("S", pw, 1, eta, 0), Cdf("K", pw, 1, eta, -1))
        \* lines 232-234
        Puo1 == PSub(PAdd(PAdd(PNeg(Cdf("S", 0, -1, nu, 0)), Cdf("K", 0, -1, nu, -1)),
                          Cdf("S", pw, -1, lam, 0)),
                     Cdf("K", pw, -1, lam, -1))
        \* lines 236-238
        Pdi1 == PSub(PAdd(PAdd(PNeg(Cdf("S", 0, -1, nu, 0)), Cdf("K", 0, -1, nu, -1)),
                          PSub(Cdf("S", pw, 1, eta, 0), Cdf("S", pw, 1, lam, 0))),
                     PSub(Cdf("K", pw, 1, eta, -1), Cdf("K", pw, 1, lam, -1)))
        \* lines 246-248
        Cdo2 == PAdd(PSub(PSub(Cdf("S", 0, 1, nu, 0), Cdf("K", 0, 1, nu, -1)),
                          Cdf("S", pw, 1, lam, 0)),
                     Cdf("K", pw, 1, lam, -1))
        \* lines 250-252
        Cui2 == PAdd(PSub(PSub(Cdf("S", 0, 1, nu, 0), Cdf("K", 0, 1, nu, -1)),
                          PSub(Cdf("S", pw, -1, eta, 0), Cdf("S", pw, -1, lam, 0))),
                     PSub(Cdf("K", pw, -1, eta, -1), Cdf("K", pw, -1, lam, -1)))
        \* lines 255-256
        Pui2 == PAdd(PNeg(Cdf("S", pw, -1, eta, 0)), Cdf("K", pw, -1, eta, -1))
    IN  IF Hb < K
        THEN [H |-> Hb, C |-> C, P |-> P,
              C_di |-> Cdi1, C_do |-> Complement(C, Cdi1),
              C_uo |-> PZero, C_ui |-> C,
              P_ui |-> IF Hb <= S THEN P ELSE Complement(P, Puo1),
              P_uo |-> IF Hb <= S THEN PZero ELSE Puo1,
              P_di |-> Pdi1, P_do |-> Complement(P, Pdi1)]
        ELSE [H |-> Hb, C |-> C, P |-> P,
              C_di |-> IF Hb >= S THEN C ELSE Complement(C, Cdo2),
              C_do |-> IF Hb >= S THEN PZero ELSE Cdo2,
              C_ui |-> Cui2, C_uo |-> Complement(C, Cui2),
              P_ui |-> Pui2, P_uo |-> Complement(P, Pui2),
              P_di |-> P, P_do |-> PZero]

NoBar == [S |-> 0, K |-> 0, H |-> 0, n_obs |-> -1, shift |-> 0, ret |-> << >>]

(***************************************************************************)
(* barrier_mc(S, K, H, T, r, q, sigma, nblocks, nsample, nsteps, cts):     *)
(* Monte Carlo prices of the eight barrier options.  Prices are e^level    *)
(* for an integer log-level; the increments dX of the log-price are drawn  *)
(* by np.random.normal and are given here as integers, one per sample and  *)
(* time step.                                                              *)
(***************************************************************************)
\* lines 353-354: H = H*np.exp(-np.sign(H-S0)*0.5826*sigma*np.sqrt(dt)),
\* shift = 0.5826*sigma*np.sqrt(dt) > 0, spot = the S0 that line 354 reads
ContinuityCorrection(H, spot, cts, shift) ==
    IF cts THEN H - Sign(H - spot) * shift ELSE H

\* np.cumsum(dX, axis=1) for one sample
RECURSIVE cumsum(_)
cumsum(dXj) ==
    IF Len(dXj) = 0 THEN << >>
    ELSE LET head == cumsum(SubSeq(dXj, 1, Len(dXj) - 1))
         IN  Append(head, (IF Len(head) = 0 THEN 0 ELSE head[Len(head)]) + dXj[Len(dXj)])

\* lines 362-365: X starts at 0 and accumulates the increments; S = S0*np.exp(X)
Paths(dX, spot) ==
    [j \in 1..Len(dX) |->
        LET X == <<0>> \o cumsum(dX[j]) IN [t \in 1..Len(X) |-> spot + X[t]]]

\* a faulty variant of ReachedUp: the barrier must be exceeded
ReachedAbove(s, H) == s > H

\* lines 368 and 370: S >= H and S <= H at one observation
ReachedUp(s, H) == s >= H
ReachedDown(s, H) == s <= H

\* a faulty variant of Clipped: the count of observations is kept
Unclipped(count) == count

\* lines 369 and 371: mask[mask > 0] = 1
Clipped(count) == IF count > 0 THEN 1 ELSE 0

\* lines 368-371: np.sum(..., axis=1), then every positive count is set to 1
mask_u(S, H) ==
    [j \in 1..Len(S) |->
        Clipped(Cardinality({t \in 1..Len(S[j]) : ReachedUp(S[j][t], H)}))]
mask_d(S, H) ==
    [j \in 1..Len(S) |->
        Clipped(Cardinality({t \in 1..Len(S[j]) : ReachedDown(S[j][t], H)}))]

\* np.maximum(S[:,-1] - K, 0) and np.maximum(K - S[:,-1], 0) for one sample
CallPay(Sj, K) == Maximum0(SubV(VExp(<<Sj[Len(Sj)], 1>>), VExp(<<K, 1>>)))
PutPay(Sj, K) == Maximum0(SubV(VExp(<<K, 1>>), VExp(<<Sj[Len(Sj)], 1>>)))

\* lines 374-381: the arrays averaged by np.mean, one entry per sample
PathPayoffs(S, K, mu, md) ==
    [j \in 1..Len(S) |->
        [C_ui |-> MulV(CallPay(S[j], K), VInt(mu[j])),
         C_uo |-> MulV(CallPay(S[j], K), VInt(1 - mu[j])),
         C_di |-> MulV(CallPay(S[j], K), VInt(md[j])),
         C_do |-> MulV(CallPay(S[j], K), VInt(1 - md[j])),
         P_ui |-> MulV(PutPay(S[j], K), VInt(mu[j])),
         P_uo |-> MulV(PutPay(S[j], K), VInt(1 - mu[j])),
         P_di |-> MulV(PutPay(S[j], K), VInt(md[j])),
         P_do |-> MulV(PutPay(S[j], K), VInt(1 - md[j]))]]

\* np.exp(-r*T) * np.mean(a) for the array a of one option
RECURSIVE SumV(_)
SumV(a) == IF Len(a) = 0 THEN VInt(0) ELSE AddV(SumV(SubSeq(a, 1, Len(a) - 1)), a[Len(a)])
DiscountedMean(a) == MulV(V("pos"), MulV(VNum(Rat(1, Len(a))), SumV(a)))

\* A payoff in exact form: the integer coefficient of e^n for each log-level
\* n.  np.maximum(S[:,-1] - K, 0) is e^s - e^K when s > K and 0 otherwise.
LevelsOf(S, K) == {K} \cup {S[j][t] : j \in 1..Len(S), t \in 1..(IF Len(S) = 0 THEN 0 ELSE Len(S[1]))}
ExactCall(S, j, K) ==
    [n \in LevelsOf(S, K) |->
        IF S[j][Len(S[j])] > K
        THEN (IF n = S[j][Len(S[j])] THEN 1 ELSE 0) - (IF n = K THEN 1 ELSE 0)
        ELSE 0]
ExactPut(S, j, K) ==
    [n \in LevelsOf(S, K) |->
        IF K > S[j][Len(S[j])]
        THEN (IF n = K THEN 1 ELSE 0) - (IF n = S[j][Len(S[j])] THEN 1 ELSE 0)
        ELSE 0]

\* the sum over the first j samples of weight * payoff; np.mean divides it by
\* the number of samples and the block price multiplies it by np.exp(-r*T)
RECURSIVE ExactSum(_, _, _, _, _)
ExactSum(S, K, call, weight, j) ==
    IF j = 0 THEN [n \in LevelsOf(S, K) |-> 0]
    ELSE LET rest == ExactSum(S, K, call, weight, j - 1)
             pj   == IF call THEN ExactCall(S, j, K) ELSE ExactPut(S, j, K)
         IN  [n \in LevelsOf(S, K) |-> rest[n] + weight[j] * pj[n]]

\* lines 374-381 and 384-391 for one block: the numerators of the eight means
ExactMeans(S, K, mu, md) ==
    LET no(m) == [j \in 1..Len(m) |-> 1 - m[j]]
    IN  [C_ui |-> ExactSum(S, K, TRUE, mu, Len(S)),
         C_uo |-> ExactSum(S, K, TRUE, no(mu), Len(S)),
         C_di |-> ExactSum(S, K, TRUE, md, Len(S)),
         C_do |-> ExactSum(S, K, TRUE, no(md), Len(S)),
         P_ui |-> ExactSum(S, K, FALSE, mu, Len(S)),
         P_uo |-> ExactSum(S, K, FALSE, no(mu), Len(S)),
         P_di |-> ExactSum(S, K, FALSE, md, Len(S)),
         P_do |-> ExactSum(S, K, FALSE, no(md), Len(S))]

Options == {"C_di", "C_do", "C_ui", "C_uo", "P_di", "P_do", "P_ui", "P_uo"}

\* one block (nblocks = 1): dX is the array of increments of size
\* (nsample, nsteps) drawn at line 359; the argument S is not read
barrier_mc(S, K, H, dX, cts, shift, S0) ==
    LET Hb  == ContinuityCorrection(H, S0, cts, shift)
        St  == Paths(dX, S0)
        mu  == mask_u(St, Hb)
        md  == mask_d(St, Hb)
        pays == PathPayoffs(St, K, mu, md)
    IN  [H |-> Hb, S |-> St, mask_u |-> mu, mask_d |-> md, pays |-> pays,
         sums |-> ExactMeans(St, K, mu, md),
         price |-> [o \in Options |->
                      DiscountedMean([j \in 1..Len(pays) |-> pays[j][o]])]]

NoRun == [K |-> 0, H |-> 0, cts |-> FALSE, shift |-> 0, nsteps |-> 0,
          ret |-> [H |-> 0, S |-> << >>, mask_u |-> << >>, mask_d |-> << >>,
                   pays |-> << >>,
                   sums |-> [o \in Options |-> [n \in {0} |-> 0]], price |-> [o \in Options |-> VInt(0)]]]

(***************************************************************************)
(* merton_jump_analytical(S, K, T, r, q, sigma, mu_j, sigma_j, lam, call,  *)
(* max_iter, stop_cond): the truncated series.  sum_k is the sequence of   *)
(* the components (Poisson weight times bs_price) for k = 0, 1, ..., as    *)
(* multiples of a unit; stop_cond is in the same unit.                     *)
(***************************************************************************)
\* a faulty variant of Accumulate: the component is tested before it is added
RECURSIVE AccumulateTested(_, _, _, _, _)
AccumulateTested(sum_k, max_iter, stop_cond, k, Vk) ==
    IF k >= max_iter THEN [V |-> Vk, added |-> k, early |-> FALSE]
    ELSE IF sum_k[k + 1] < stop_cond THEN [V |-> Vk, added |-> k, early |-> TRUE]
    ELSE AccumulateTested(sum_k, max_iter, stop_cond, k + 1, Vk + sum_k[k + 1])

\* lines 478-487: the loop from iteration k on, Vk being the sum V so far.
\* added is the number of components in the returned V, early tells whether
\* the return of line 486 was taken
RECURSIVE Accumulate(_, _, _, _, _)
Accumulate(sum_k, max_iter, stop_cond, k, Vk) ==
    IF k >= max_iter THEN [V |-> Vk, added |-> k, early |-> FALSE]
    ELSE IF sum_k[k + 1] < stop_cond
         THEN [V |-> Vk + sum_k[k + 1], added |-> k + 1, early |-> TRUE]
         ELSE Accumulate(sum_k, max_iter, stop_cond, k + 1, Vk + sum_k[k + 1])

\* lines 476-487
merton_jump_analytical(sum_k, max_iter, stop_cond) ==
    Accumulate(sum_k, max_iter, stop_cond, 0, 0)

NoSeries == [sum_k |-> << >>, max_iter |-> 0, stop_cond |-> 0,
             ret |-> [V |-> 0, added |-> 0, early |-> FALSE]]

(***************************************************************************)
(* The notebook session: the parameters are set, the grids are built, and  *)
(* then payoff is called on the grids.                                     *)
(***************************************************************************)
Alphas == -2..1
Prices == {VInt(0), V("pinf")} \cup {VExp(<<j, 1>>) : j \in -MaxLevel..MaxLevel}
NoCall == [alpha |-> 0, K |-> VInt(0), L |-> VInt(0), U |-> VInt(0), C |-> VInt(0),
           call |-> 0,
           ret |-> [err |-> "none", g |-> << >>, G |-> << >>, S |-> << >>,
                    l |-> V("nan"), k |-> V("nan"), u |-> V("nan"),
                    a |-> V("nan"), b |-> V("nan")]]

NoDamp == [alpha |-> 0, xia_c |-> << >>, psi_c |-> << >>, xia_p |-> << >>, psi_p |-> << >>,
           call |-> NoCall, put |-> NoCall]

NoEval == [model |-> "none", phi |-> Cx(VInt(0), VInt(0)), args |-> << >>,
           expo |-> Cx(VInt(0), VInt(0)), warned |-> FALSE,
           value |-> Cx(VInt(0), VInt(0))]
NoValue == Real([m \in 0..0 |-> 0], 1)
NoPrice ==
    /\ discount = <<1, 1>>
    /\ Gc = << >>
    /\ psi_c = << >>
    /\ c_S = << >>
    /\ Vc = [k \in 3..5 |-> NoValue]
    /\ psi = << >>
    /\ f = << >>
    /\ cf = NoEval
    /\ S0_global = 0
    /\ bar = NoBar
    /\ mc = NoRun
    /\ mj = NoSeries
    /\ damp = NoDamp

Init ==
    /\ pc = "grid"
    /\ xwidth \in 1..MaxWidth
    /\ ngrid \in 2..MaxGrid
    /\ N = 0
    /\ dx = Rat(0, 1)
    /\ x = << >>
    /\ dxi = Rat(0, 1)
    /\ xi = << >>
    /\ pay = NoCall
    /\ NoPrice

\* lines 143-148
BuildGrid ==
    /\ pc = "grid"
    /\ N' = Half(ngrid)
    /\ dx' = Step_dx(xwidth, ngrid)
    /\ x' = Scaled(Step_dx(xwidth, ngrid), Half(ngrid))
    /\ dxi' = Step_dxi(xwidth)
    /\ xi' = Scaled(Step_dxi(xwidth), Half(ngrid))
    /\ pc' = "gridded"
    /\ UNCHANGED barrierVars
    /\ UNCHANGED <<xwidth, ngrid, pay>>
    /\ UNCHANGED priceVars

\* a call payoff(x, xi, alpha, K, L, U, C, call) on the grids
CallPayoff ==
    /\ pc = "gridded"
    /\ \E alpha \in Alphas, K \in Prices, L \in Prices, U \in Prices, call \in {0, 1} :
          pay' = [alpha |-> alpha, K |-> K, L |-> L, U |-> U, C |-> V("pos"),
                  call |-> call,
                  ret |-> payoff(x, xi, alpha, K, L, U, V("pos"), call)]
    /\ pc' = "paid"
    /\ UNCHANGED barrierVars
    /\ UNCHANGED gridVars
    /\ UNCHANGED priceVars

\* a faulty variant of PutShift: the put is shifted like the call
CallShift(alpha) == alpha

\* line 155: xia = xi - 1j*alpha, the imaginary part added to xi for the put
PutShift(alpha) == -alpha

\* lines 151 and 155: xia = xi + 1j*shift
Shifted(xis, shift) == [j \in 1..Len(xis) |-> Cx(XiV(xis[j]), VInt(shift))]

\* lines 152-153 and 156-157: the characteristic function on the shifted grid
OnGrid(xia) ==
    [j \in 1..Len(xia) |->
        CharFn(xia[j], V("fin"), V("pos"), V("pos"), V("neg"), V("pos"), V("pos"))]

\* one call of payoff with what it returned
PayoffCall(alpha, K, L, U, C, call) ==
    [alpha |-> alpha, K |-> K, L |-> L, U |-> U, C |-> C, call |-> call,
     ret |-> payoff(x, xi, alpha, K, L, U, C, call)]

\* lines 150-163: the characteristic functions of the call and of the put on
\* the shifted frequencies, then the two payoff transforms, with
\* U = S0*exp(b), L = S0*exp(-b), b = xwidth/2 and the scale C = S0
DampedTransforms ==
    /\ pc = "gridded"
    /\ \E alpha \in Alphas, K \in {VExp(<<j, 1>>) : j \in -MaxLevel..MaxLevel} :
          damp' = [alpha |-> alpha,
                   xia_c |-> Shifted(xi, alpha),
                   psi_c |-> OnGrid(Shifted(xi, alpha)),
                   xia_p |-> Shifted(xi, PutShift(alpha)),
                   psi_p |-> OnGrid(Shifted(xi, PutShift(alpha))),
                   call  |-> PayoffCall(alpha, K, VExp(<<-xwidth, 2>>), VExp(<<xwidth, 2>>),
                                        V("pos"), 1),
                   put   |-> PayoffCall(-alpha, K, VExp(<<-xwidth, 2>>), VExp(<<xwidth, 2>>),
                                        V("pos"), 0)]
    /\ pc' = "damped"
    /\ UNCHANGED <<gridVars, pay, priceVars, S0_global, bar, mc, mj>>

Next == BuildGrid \/ CallPayoff \/ DampedTransforms

Spec == Init /\ [][Next]_vars

(***************************************************************************)
(* The pricing cells, run in the order of the notebook on numeric samples  *)
(* of the payoff transform and of the characteristic functions.            *)
(***************************************************************************)
Discounts == {<<1, 1>>, <<2, 3>>}
GaussG == {<<1, 1>>, <<2, -1>>}
GaussPsi == {<<1, 0>>, <<1, -2>>}

\* a vector equal to base everywhere but at one index
Spike(n, at, base, peak) == [j \in 1..n |-> IF j = at THEN peak ELSE base]

InitPrice ==
    /\ pc = "grid"
    /\ xwidth \in 1..MaxWidth
    /\ ngrid \in {2^e : e \in 1..MaxLog2} \cup {2^e + 1 : e \in 1..MaxLog2}
    /\ N = 0
    /\ dx = Rat(0, 1)
    /\ x = << >>
    /\ dxi = Rat(0, 1)
    /\ xi = << >>
    /\ pay = NoCall
    /\ NoPrice

\* lines 150-163, as numbers: discount, psi_c and Gc
Sample ==
    /\ pc = "gridded"
    /\ discount' \in Discounts
    /\ \E p \in 1..Len(xi), g0 \in GaussG, g1 \in GaussG :
          Gc' = Spike(Len(xi), p, g0, g1)
    /\ \E p \in 1..Len(xi), s0 \in GaussPsi, s1 \in GaussPsi :
          psi_c' = Spike(Len(xi), p, s0, s1)
    /\ pc' = "cell3"
    /\ UNCHANGED barrierVars
    /\ UNCHANGED <<gridVars, pay, c_S, Vc, psi, f, cf>>

\* lines 166-167: the integrand is Gc * conj(psi_c)
Cell3 ==
    /\ pc = "cell3"
    /\ c_S' = Plancherel([j \in 1..Len(Gc) |-> GMul(Gc[j], GConj(psi_c[j]))], discount, xwidth)
    /\ Vc' = [Vc EXCEPT ![3] = interp1d(x, c_S', Rat(0, 1))]
    /\ pc' = "cell4"
    /\ UNCHANGED barrierVars
    /\ UNCHANGED <<gridVars, pay, discount, Gc, psi_c, psi, f, cf>>

\* lines 202-203: the integrand is conj(Gc) * psi_c
Cell4 ==
    /\ pc = "cell4"
    /\ c_S' = Plancherel([j \in 1..Len(Gc) |-> GMul(GConj(Gc[j]), psi_c[j])], discount, xwidth)
    /\ Vc' = [Vc EXCEPT ![4] = interp1d(x, c_S', Rat(0, 1))]
    /\ pc' = "cell5"
    /\ UNCHANGED barrierVars
    /\ UNCHANGED <<gridVars, pay, discount, Gc, psi_c, psi, f, cf>>

\* line 236: the trapezoidal rule on conj(Gc) * psi_c
Cell5 ==
    /\ pc = "cell5"
    /\ Vc' = [Vc EXCEPT ![5] =
                Trapezoid([j \in 1..Len(Gc) |-> GMul(GConj(Gc[j]), psi_c[j])], discount, xwidth)]
    /\ pc' = "priced"
    /\ UNCHANGED barrierVars
    /\ UNCHANGED <<gridVars, pay, discount, Gc, psi_c, c_S, psi, f, cf>>

\* the value of an exactly known complex with integer parts, as a sample
GaussOf(z) == <<z.re.q[1] \div z.re.q[2], z.im.q[1] \div z.im.q[2]>>

\* lines 268-272: the undamped characteristic function on xi and the density;
\* the cell reads the grids only.  At the frequency 0 the sample is what
\* CharFn returns there.
Cell6 ==
    /\ pc = "gridded"
    /\ \E p \in 1..Len(xi), s0 \in GaussPsi, s1 \in GaussPsi,
          lam \in {VInt(0), V("pos")} :
          psi' = [j \in 1..Len(xi) |->
                    IF RZero(xi[j])
                    THEN GaussOf(CharFn(OfReal(XiV(xi[j])), V("fin"), V("pos"), lam,
                                        V("neg"), V("pos"), V("pos")))
                    ELSE Spike(Len(xi), p, s0, s1)[j]]
    /\ f' = Density(psi', xwidth)
    /\ pc' = "done"
    /\ UNCHANGED barrierVars
    /\ UNCHANGED <<gridVars, pay, discount, Gc, psi_c, c_S, Vc, cf>>

NextPrice == BuildGrid \/ Sample \/ Cell3 \/ Cell4 \/ Cell5 \/ Cell6

SpecPrice == InitPrice /\ [][NextPrice]_vars

(***************************************************************************)
(* Calls of barrier_analytical.  The cell that sets the parameters assigns *)
(* the global S0; the function is then called with any arguments.          *)
(***************************************************************************)
Levels == -MaxLevel..MaxLevel

InitBarrier ==
    /\ pc = "params"
    /\ xwidth = 1
    /\ ngrid = 2
    /\ N = 0
    /\ dx = Rat(0, 1)
    /\ x = << >>
    /\ dxi = Rat(0, 1)
    /\ xi = << >>
    /\ pay = NoCall
    /\ NoPrice

\* part_000 line 265: S0 = 50
SetSpot ==
    /\ pc = "params"
    /\ S0_global' \in Levels
    /\ pc' = "ready"
    /\ UNCHANGED <<gridVars, pay, priceVars, bar, mc, mj, damp>>

\* a call barrier_analytical(S, K, H, T, r, q, sigma, t, n_obs)
CallBarrier ==
    /\ pc = "ready"
    /\ \E S \in Levels, K \in Levels, H \in Levels, n_obs \in -1..1, shift \in 1..MaxShift :
          bar' = [S |-> S, K |-> K, H |-> H, n_obs |-> n_obs, shift |-> shift,
                  ret |-> barrier_analytical(S, K, H, n_obs, shift, S0_global)]
    /\ pc' = "called"
    /\ UNCHANGED <<gridVars, pay, priceVars, S0_global, mc, mj, damp>>

NextBarrier == SetSpot \/ CallBarrier

SpecBarrier == InitBarrier /\ [][NextBarrier]_vars

(***************************************************************************)
(* The Monte Carlo cell: barrier_mc(S0, K, H, ..., nsteps, cts) on one     *)
(* block of two samples.                                                   *)
(***************************************************************************)
Samples == 1..2
Increments == {-1, 1}

\* part_000 line 409: barrier_mc(S0, K, H, T, r, q, sigma, nblocks, nsample, nsteps, cts)
CallBarrierMC ==
    /\ pc = "ready"
    /\ \E K \in Levels, H \in Levels, cts \in BOOLEAN, shift \in 1..MaxShift,
          nsteps \in 1..MaxSteps :
          \E dX \in [Samples -> [1..nsteps -> Increments]] :
             mc' = [K |-> K, H |-> H, cts |-> cts,
                    shift |-> IF cts THEN shift ELSE 0, nsteps |-> nsteps,
                    ret |-> barrier_mc(S0_global, K, H, dX, cts, shift, S0_global)]
    /\ pc' = "simulated"
    /\ UNCHANGED <<gridVars, pay, priceVars, S0_global, bar, mj, damp>>

NextMC == SetSpot \/ CallBarrierMC

SpecMC == InitBarrier /\ [][NextMC]_vars

(***************************************************************************)
(* One call of merton_jump_analytical per behaviour.                       *)
(***************************************************************************)
Components == 0..MaxComp

InitMerton ==
    /\ pc = "series"
    /\ xwidth = 1
    /\ ngrid = 2
    /\ N = 0
    /\ dx = Rat(0, 1)
    /\ x = << >>
    /\ dxi = Rat(0, 1)
    /\ xi = << >>
    /\ pay = NoCall
    /\ NoPrice

\* a call merton_jump_analytical(S0, K, T, r, q, sigma, mu_j, sigma_j, lam, ...)
CallMerton ==
    /\ pc = "series"
    /\ \E max_iter \in 1..MaxIter, stop_cond \in Components :
          \E sum_k \in [1..max_iter -> Components] :
             mj' = [sum_k |-> sum_k, max_iter |-> max_iter, stop_cond |-> stop_cond,
                    ret |-> merton_jump_analytical(sum_k, max_iter, stop_cond)]
    /\ pc' = "summed"
    /\ UNCHANGED <<gridVars, pay, priceVars, S0_global, bar, mc, damp>>

NextMerton == CallMerton

SpecMerton == InitMerton /\ [][NextMerton]_vars

(***************************************************************************)
(* Evaluations of the characteristic functions, one at a time.             *)
(***************************************************************************)
Signed == {V("neg"), VInt(0), V("pos")}

InitCF ==
    /\ pc = "cf"
    /\ xwidth = 1
    /\ ngrid = 2
    /\ N = 0
    /\ dx = Rat(0, 1)
    /\ x = << >>
    /\ dxi = Rat(0, 1)
    /\ xi = << >>
    /\ pay = NoCall
    /\ NoPrice

\* xia = xi + 1j*alpha (alpha = 0: undamped), then CharFn
EvalJumpDiffusion ==
    /\ pc = "cf"
    /\ \E k \in -1..1, alpha \in Alphas, muRN \in Signed, mu_j \in Signed,
          lam \in {VInt(0), V("pos")} :
          cf' = [model |-> IF IsZeroV(lam) THEN "diffusion" ELSE "jump-diffusion",
                 phi   |-> Cx(XiV(Rat(k, 1)), VInt(alpha)),
                 args  |-> <<muRN, lam, mu_j>>,
                 expo  |-> CharExponent(Cx(XiV(Rat(k, 1)), VInt(alpha)), muRN, V("pos"),
                                        lam, mu_j, V("pos")),
                 warned |-> Warned(CharExponent(Cx(XiV(Rat(k, 1)), VInt(alpha)), muRN,
                                                V("pos"), lam, mu_j, V("pos"))),
                 value |-> CharFn(Cx(XiV(Rat(k, 1)), VInt(alpha)), muRN, V("pos"), lam,
                                  mu_j, V("pos"), V("pos"))]
    /\ pc' = "evaluated"
    /\ UNCHANGED barrierVars
    /\ UNCHANGED <<gridVars, pay, discount, Gc, psi_c, c_S, Vc, psi, f>>

HestonKappa == {Rat(0, 1), Rat(2, 1)}
HestonLmbda == {Rat(-3, 1), Rat(0, 1)}
HestonRho == {Rat(-7, 10), Rat(0, 1), Rat(7, 10)}
HestonSigma == {Rat(3, 10), Rat(1, 1)}

\* f_Heston(phi, S0, v0, T, r, q, kappa, theta, sigma, rho, lmbda, j)
EvalHeston ==
    /\ pc = "cf"
    /\ \E k \in 0..1, kappa \in HestonKappa, lam \in HestonLmbda, rho \in HestonRho,
          sigma \in HestonSigma, j \in 1..2 :
          cf' = [model |-> "heston",
                 phi   |-> OfReal(XiV(Rat(k, 1))),
                 args  |-> <<kappa, lam, rho, sigma, j>>,
                 expo  |-> Cx(VInt(0), VInt(0)),
                 warned |-> FALSE,
                 value |-> f_Heston(XiV(Rat(k, 1)), V("pos"), V("pos"), V("pos"),
                                    V("pos"), V("pos"), VNum(kappa), V("pos"),
                                    VNum(sigma), VNum(rho), VNum(lam), j)]
    /\ pc' = "evaluated"
    /\ UNCHANGED barrierVars
    /\ UNCHANGED <<gridVars, pay, discount, Gc, psi_c, c_S, Vc, psi, f>>

NextCF == EvalJumpDiffusion \/ EvalHeston

SpecCF == InitCF /\ [][NextCF]_vars


(***************************************************************************)
(* Properties                                                              *)
(***************************************************************************)
IsPow2(n) == \E e \in 0..n : 2^e = n

\* C2 (as claimed): once the grids are built, dx * dxi = 2*pi/n where n is
\* the number of points the grids really have.
C2_Nyquist ==
    pc # "grid" => REq(RMul(dx, dxi), Rat(2, Len(x)))

\* C3 (as claimed): both grids have exactly ngrid points, the points are
\* step * j for j = -n/2 .. n/2-1 in increasing order, and the value at
\* index n/2 is 0.
C3_GridShape ==
    pc # "grid" =>
        /\ Len(x) = ngrid
        /\ Len(xi) = ngrid
        /\ \A i \in 1..ngrid :
              /\ REq(x[i], RMul(dx, Rat(2 * (i - 1) - ngrid, 2)))
              /\ REq(xi[i], RMul(dxi, Rat(2 * (i - 1) - ngrid, 2)))
        /\ RZero(x[(ngrid \div 2) + 1])
        /\ RZero(xi[(ngrid \div 2) + 1])

\* C10 (as claimed): with a number of points that is not a power of two no
\* grid is produced.
C10_PowerOfTwoOnly ==
    ~IsPow2(ngrid) => (pc = "grid" /\ x = << >> /\ xi = << >>)

\* The centre entry of the transform returned by the last payoff call
CentreG == pay.ret.G[Centre(Len(xi))].v
Singular == pc = "paid" /\ pay.alpha \in {0, -1}

\* C5 (as claimed): with alpha = 0 or alpha = -1 the transform has the length
\* of xi and its entry at the zero-frequency index is finite, for every
\* K, L, U and both rights.
C5_AlwaysFinite ==
    Singular => (Len(pay.ret.G) = Len(xi) /\ IsFiniteC(CentreG))

\* C5 (amended): with alpha = 0 or alpha = -1 the transform has the length of
\* xi, and its entry at the zero-frequency index is finite exactly when both
\* integration bounds a, b are finite and the strike is not +inf.
BoundsFinite ==
    IsFiniteV(pay.ret.a) /\ IsFiniteV(pay.ret.b) /\ pay.ret.k.c # "pinf"
C5_FiniteIffBounded ==
    Singular => /\ Len(pay.ret.G) = Len(xi)
                /\ IsFiniteC(CentreG) <=> BoundsFinite
C5_Witness ==
    /\ Singular /\ pay.alpha = -1 /\ pay.call = 1
    /\ BoundsFinite /\ IsFiniteC(CentreG)
    /\ pay.ret.G[Centre(Len(xi))].form = "limitm1"

\* C9 (as claimed): a call with alpha <= 0 or a put with alpha >= -1 is
\* rejected with a ConfigurationError and no transform is produced.
Inadmissible ==
    pc = "paid" /\ ((pay.call = 1 /\ pay.alpha <= 0) \/ (pay.call # 1 /\ pay.alpha >= -1))
C9_Rejected ==
    Inadmissible => (pay.ret.err = "ConfigurationError" /\ pay.ret.G = << >>)

\* C9 (amended): payoff does not validate alpha: a call with alpha <= 0 and a
\* put with alpha >= -1 return normally with a transform of the length of xi.
C9_NoValidation ==
    Inadmissible => (pay.ret.err = "none" /\ Len(pay.ret.G) = Len(xi)
                     /\ Len(pay.ret.g) = Len(x))
C9_Witness ==
    Inadmissible /\ pay.call = 1 /\ pay.alpha = -1 /\ Len(pay.ret.G) >= 2


(***************************************************************************)
(* Pricing cells                                                           *)
(***************************************************************************)
\* the integrands of cell 3 and of cells 4 and 5
PlancherelIntegrand == [j \in 1..Len(Gc) |-> GMul(Gc[j], GConj(psi_c[j]))]
ConjIntegrand == [j \in 1..Len(Gc) |-> GMul(GConj(Gc[j]), psi_c[j])]

\* the discrete transform centred on the middle of the grid, written out:
\* sum_j v[j] * exp(-sign * 2*pi*i * (j - n/2) * (k - n/2) / n), indices from 0
CentredDFT(v, sign) ==
    LET n == Len(v)
        M == CycM(n)
        h == n \div 2
    IN  [k \in 1..n |->
           CycSum([j \in 1..n |->
                     GaussRoot(M, v[j], sign * (M \div n) * (j - 1 - h) * (k - 1 - h))],
                  n, M)]

\* the discounted real part of a transform value t over den
DiscountedRe(t, den) == Real([m \in DOMAIN ReCyc(t) |-> discount[1] * ReCyc(t)[m]],
                             discount[2] * den)

ReadAtSpot == REq(x[N + 1], Rat(0, 1)) /\ RealEq(Vc[3], c_S[N + 1])

\* C8 as stated: the price at every grid point is
\* discount * Re(inverse DFT of the shifted product) / width, the inverse DFT
\* carrying exp(+2*pi*i*j*k/n) and the factor 1/n, and the price is read at
\* the grid point where log(spot/scale) = 0
C8_InverseDFT ==
    pc = "cell4" =>
        /\ \A k \in 1..Len(c_S) :
              RealEq(c_S[k],
                     DiscountedRe(CentredDFT(PlancherelIntegrand, -1)[k],
                                  xwidth * Len(c_S)))
        /\ ReadAtSpot

\* C8 amended: the price at every grid point is
\* discount * Re(forward DFT of the shifted product) / width, the forward DFT
\* carrying exp(-2*pi*i*j*k/n) and no factor 1/n, and the price is read at
\* the grid point where log(spot/scale) = 0
C8_ForwardDFT ==
    pc = "cell4" =>
        /\ \A k \in 1..Len(c_S) :
              RealEq(c_S[k],
                     DiscountedRe(CentredDFT(PlancherelIntegrand, 1)[k], xwidth))
        /\ ReadAtSpot

\* a grid of four points or more priced from an integrand whose forward and
\* inverse transforms differ off the centre
C8_Witness ==
    /\ pc = "cell4"
    /\ Len(c_S) >= 4
    /\ \E k \in 2..Len(c_S) : ~RealEq(c_S[k], c_S[Len(c_S) + 2 - k])

\* the end-point term: discount * Re(v[first] + v[last]) / (2 * width)
EndPoints ==
    LET v == ConjIntegrand
    IN  Real([m \in 0..0 |-> discount[1] * (v[1][1] + v[Len(v)][1])],
             2 * discount[2] * xwidth)

\* |p| < 10^-Decimals for a rational p
Negligible(p) ==
    /\ IsRational(p)
    /\ p.r[0] * (10 ^ Decimals) < p.d
    /\ (-p.r[0]) * (10 ^ Decimals) < p.d

C6_Normalized ==
    (cf.model # "none" /\ IsZeroC(cf.phi)) => IsOneC(cf.value)

RECURSIVE SumF(_)
SumF(k) == IF k = 0 THEN Real([m \in 0..0 |-> 0], 1)
           ELSE RealSub(SumF(k - 1), Real([m \in DOMAIN f[k].r |-> -f[k].r[m]], f[k].d))

\* sum over all grid points of f * dx
Mass == LET t == SumF(Len(f))
        IN  Real([m \in DOMAIN t.r |-> t.r[m] * dx[1]], t.d * dx[2])

\* n * dx / width times the characteristic function at the frequency 0
MassFormula == Real([m \in 0..0 |-> Len(f) * dx[1] * psi[N + 1][1]], dx[2] * xwidth)

\* C7: the density integrates to one: the sum over all grid points of f * dx
\* equals n * dx / width times the characteristic function at frequency 0,
\* which is 1
C7_IntegratesToOne ==
    pc = "done" =>
        /\ RealEq(Mass, MassFormula)
        /\ RealEq(Mass, Real([m \in 0..0 |-> 1], 1))

(***************************************************************************)
(* Barrier window of payoff                                                *)
(***************************************************************************)
\* the window [L, U] is empty: L >= U
EmptyWindow == ~GtV(LogV(pay.U), LogV(pay.L))

\* the payoff is positive nowhere on the window: K >= U for a call,
\* K <= L for a put
NoPositivePayoff ==
    IF pay.call = 1 THEN ~GtV(LogV(pay.U), LogV(pay.K))
    ELSE ~GtV(LogV(pay.K), LogV(pay.L))

\* C11: a call of payoff with an empty window, or with a window on which the
\* payoff is positive nowhere, raises ConfigurationError and returns no
\* transform
C11_WindowRejected ==
    (pc = "paid" /\ (EmptyWindow \/ NoPositivePayoff)) =>
        (pay.ret.err = "ConfigurationError" /\ pay.ret.G = << >>)

(***************************************************************************)
(* Damped characteristic functions                                         *)
(***************************************************************************)
Damped_cf == cf.model \in {"diffusion", "jump-diffusion"}
Growing == Damped_cf /\ SgnV(cf.expo.re) = 1

Called == pc = "called"

\* C14: in every branch, each knock-in price plus the matching knock-out
\* price equals the vanilla price: C_di + C_do = C, C_ui + C_uo = C,
\* P_di + P_do = P, P_ui + P_uo = P
C14_InOutParity ==
    Called =>
        /\ PAdd(bar.ret.C_di, bar.ret.C_do) = bar.ret.C
        /\ PAdd(bar.ret.C_ui, bar.ret.C_uo) = bar.ret.C
        /\ PAdd(bar.ret.P_di, bar.ret.P_do) = bar.ret.P
        /\ PAdd(bar.ret.P_ui, bar.ret.P_uo) = bar.ret.P

\* the branch H >= K with the barrier below the spot: C_do and C_ui come
\* from their closed forms and differ from 0 and from C
C14_Witness ==
    /\ Called
    /\ bar.ret.H >= bar.K /\ bar.ret.H < bar.S
    /\ bar.ret.C_do # PZero /\ bar.ret.C_di # bar.ret.C /\ bar.ret.P_ui # PZero

\* line 261: the eight prices barrier_analytical returns
Returned(ret) ==
    <<ret.C_di, ret.C_do, ret.C_ui, ret.C_uo, ret.P_di, ret.P_do, ret.P_ui, ret.P_uo>>

\* C13: barrier_analytical is a pure function of its arguments: a call with
\* the same arguments returns the same eight prices whatever the value of the
\* module-level spot S0.
C13_Pure ==
    Called => \A s0 \in Levels :
        Returned(barrier_analytical(bar.S, bar.K, bar.H, bar.n_obs, bar.shift, s0))
            = Returned(bar.ret)

\* the barrier the closed forms are evaluated with (H after lines 211-212)
BarrierInUse == bar.ret.H

\* C15: barrier already reached at valuation: for every K, C_ui = C and
\* C_uo = 0 whenever H <= S, and P_di = P and P_do = 0 whenever H >= S.
C15_AlreadyReached ==
    Called =>
        /\ BarrierInUse <= bar.S => bar.ret.C_ui = bar.ret.C /\ bar.ret.C_uo = PZero
        /\ BarrierInUse >= bar.S => bar.ret.P_di = bar.ret.P /\ bar.ret.P_do = PZero

\* C18: trivial up-barrier call: whenever H <= K (H = K included), C_uo = 0
\* and C_ui = C.
C18_TrivialUpCall ==
    Called /\ BarrierInUse <= bar.K =>
        bar.ret.C_uo = PZero /\ bar.ret.C_ui = bar.ret.C

\* C18: a call with the barrier exactly at the strike and the spot elsewhere,
\* priced by the closed form of the H >= K branch
C18_Witness ==
    /\ Called
    /\ BarrierInUse = bar.K
    /\ bar.S # bar.K
    /\ bar.ret.C_uo = PZero
    /\ bar.ret.C_ui = bar.ret.C
    /\ bar.ret.C # PZero

\* C19: with n_obs <= 0 the barrier is used unchanged; with n_obs > 0 it is
\* moved by the shift away from the spot S passed to the function: up when
\* H > S, down when H < S, unchanged when H = S.
C19_AdjustsBySpot ==
    Called =>
        BarrierInUse = IF bar.n_obs > 0
                       THEN bar.H + Sign(bar.H - bar.S) * bar.shift
                       ELSE bar.H

(***************************************************************************)
(* Integration bounds of payoff                                            *)
(***************************************************************************)
\* the window is the whole half-line, L = 0 and U = +infinity, and the strike
\* is a price: 0 < K < +infinity, so that the log strike k is a real number
Unwindowed ==
    pc = "paid" /\ pay.L = VInt(0) /\ pay.U = V("pinf") /\ IsFiniteV(LogV(pay.K))

\* the damping makes the transform of the vanilla payoff converge
Converges ==
    (pay.call = 1 /\ pay.alpha < -1) \/ (pay.call # 1 /\ pay.alpha > 0)

\* the bounds are [k, +inf) for a call and (-inf, k] for a put
VanillaBounds ==
    /\ pay.ret.a = pay.ret.k
    /\ pay.ret.b = IF pay.call = 1 THEN V("pinf") ELSE V("ninf")

\* the two exponentials of lines 83-84 taken at the window bound b
WindowTerms(i) ==
    <<ExpBound1(xi[i], pay.alpha, pay.ret.b),
      ExpBound2(xi[i], pay.alpha, pay.ret.b, pay.ret.k)>>

\* the closed form with the exponentials at the strike only
Unwindowed_G(i) ==
    ClosedForm(xi[i], pay.alpha,
               OfReal(VInt(0)), ExpBound1(xi[i], pay.alpha, pay.ret.k),
               OfReal(VInt(0)), ExpBound2(xi[i], pay.alpha, pay.ret.k, pay.ret.k),
               pay.C)

NoWindowContribution ==
    \A i \in 1..Len(pay.ret.G) :
        /\ WindowTerms(i) = <<OfReal(VInt(0)), OfReal(VInt(0))>>
        /\ pay.ret.G[i].v = Unwindowed_G(i)

\* C16 (as claimed): with L = 0 and U = +infinity the bounds are [k, +inf)
\* for a call and (-inf, k] for a put, the exponentials at the window bound
\* contribute nothing and G equals the unwindowed formula at every frequency.
C16_VanillaLimit ==
    Unwindowed => VanillaBounds /\ NoWindowContribution

\* C16 (amended): with L = 0 and U = +infinity the bounds are [k, +inf) for
\* a call and (-inf, k] for a put; the exponentials at the window bound are
\* zero and G equals the unwindowed formula when the damping converges
\* (alpha < -1 for a call, alpha > 0 for a put), and otherwise no entry of G
\* is finite.
C16_VanillaWhenDamped ==
    Unwindowed =>
        /\ VanillaBounds
        /\ Converges => NoWindowContribution
        /\ ~Converges => \A i \in 1..Len(pay.ret.G) : ~IsFiniteC(pay.ret.G[i].v)

C16_Witness ==
    /\ Unwindowed /\ Converges /\ pay.call = 1
    /\ Len(pay.ret.G) >= 2
    /\ NoWindowContribution
    /\ \A i \in 1..Len(pay.ret.G) : IsFiniteC(pay.ret.G[i].v)

\* a value known to differ from zero
NonZeroV(v) == v.c \in {"nan", "pinf", "ninf", "bad", "exp", "pos", "neg"}
                  \/ (v.c = "num" /\ v.q[1] # 0)
NonZeroC(z) == NonZeroV(z.re) \/ NonZeroV(z.im)

\* C17: the interval [a, b] of the closed form is [max(l,k), u] for a call
\* and [min(k,u), l] for a put, and when the payoff is zero on the whole
\* window (a call with K >= U, a put with K <= L) no entry of G differs
\* from zero.
C17_ZeroOffWindow ==
    pc = "paid" =>
        /\ pay.ret.a = (IF pay.call = 1 THEN MaxV(pay.ret.l, pay.ret.k)
                        ELSE MinV(pay.ret.k, pay.ret.u))
        /\ pay.ret.b = (IF pay.call = 1 THEN pay.ret.u ELSE pay.ret.l)
        /\ NoPositivePayoff =>
              \A i \in 1..Len(pay.ret.G) : ~NonZeroC(pay.ret.G[i].v)

(***************************************************************************)
(* Barrier monitoring in barrier_mc                                        *)
(***************************************************************************)
Simulated == pc = "simulated"
PathsOf == 1..Len(mc.ret.S)

\* the observation times 0..nsteps, as indices of a path
Observations == 1..(mc.nsteps + 1)

IsZeroPay(j, o) == IsZeroV(mc.ret.pays[j][o])

\* C20: every path is observed at the times 0..nsteps, the initial spot
\* included; its up (down) flag is 1 if and only if the price is >= H (<= H)
\* at one of these times; a knock-out payoff is 0 on every path whose flag
\* is 1 and a knock-in payoff is 0 on every path whose flag is 0.
C20_Monitoring ==
    Simulated =>
        \A j \in PathsOf :
            /\ DOMAIN mc.ret.S[j] = Observations
            /\ mc.ret.S[j][1] = S0_global
            /\ mc.ret.mask_u[j] \in {0, 1}
            /\ mc.ret.mask_d[j] \in {0, 1}
            /\ mc.ret.mask_u[j] = 1 <=> \E t \in Observations : mc.ret.S[j][t] >= mc.ret.H
            /\ mc.ret.mask_d[j] = 1 <=> \E t \in Observations : mc.ret.S[j][t] <= mc.ret.H
            /\ mc.ret.mask_u[j] = 1 => IsZeroPay(j, "C_uo") /\ IsZeroPay(j, "P_uo")
            /\ mc.ret.mask_d[j] = 1 => IsZeroPay(j, "C_do") /\ IsZeroPay(j, "P_do")
            /\ mc.ret.mask_u[j] = 0 => IsZeroPay(j, "C_ui") /\ IsZeroPay(j, "P_ui")
            /\ mc.ret.mask_d[j] = 0 => IsZeroPay(j, "C_di") /\ IsZeroPay(j, "P_di")

\* C20: a block with one path that only touches the barrier, never exceeds
\* it, and ends in the money (knocked in, so the up-and-out call pays 0), and
\* another path that stays below the barrier and keeps its up-and-out put
C20_Witness ==
    /\ Simulated
    /\ Len(mc.ret.S) = 2
    /\ mc.nsteps = 2
    /\ \A t \in 1..3 : mc.ret.S[1][t] <= mc.ret.H
    /\ mc.ret.mask_u[1] = 1
    /\ ~IsZeroPay(1, "C_ui")
    /\ IsZeroPay(1, "C_uo")
    /\ mc.ret.mask_u[2] = 0
    /\ ~IsZeroPay(2, "P_uo")
    /\ IsZeroPay(2, "P_ui")

(***************************************************************************)
(* Truncation of the Merton series                                         *)
(***************************************************************************)
Summed == pc = "summed"

RECURSIVE Partial(_, _)
Partial(a, n) == IF n = 0 THEN 0 ELSE Partial(a, n - 1) + a[n]

BothPriced == pc \in {"cell5", "priced"}

\* discount * Re(sum over the frequency bins of v) / width
SumOverBins(v) == DiscountedRe(CycSum([j \in 1..Len(v) |-> GaussRoot(CycM(Len(v)), v[j], 0)],
                                      Len(v), CycM(Len(v))), xwidth)

\* C22: the price read at the spot is the same with the integrand
\* G*conj(psi) and with conj(G)*psi: the real part of the sum over all
\* frequency bins is unchanged.
C22_ConjugationSymmetry ==
    BothPriced =>
        /\ RealEq(Vc[3], Vc[4])
        /\ RealEq(SumOverBins(PlancherelIntegrand), SumOverBins(ConjIntegrand))

\* two integrands that differ, priced to the same non-zero value
C22_Witness ==
    /\ BothPriced
    /\ PlancherelIntegrand # ConjIntegrand
    /\ Len(Gc) >= 4
    /\ ~RealEq(Vc[3], NoValue)
    /\ RealEq(Vc[3], Vc[4])

(***************************************************************************)
(* The price at the spot                                                   *)
(***************************************************************************)
\* C26: x is 0 at index n/2 (n the grid length), so the price interpolated
\* at the spot is the transform output at that index, which is
\* discount * Re(sum over all frequency bins of the integrand) / width.
C26_CentreBinIsSum ==
    /\ pc = "cell4" =>
          /\ Len(x) = 2 * N
          /\ REq(x[N + 1], Rat(0, 1))
          /\ \A i \in 1..Len(x) : i # N + 1 => ~REq(x[i], Rat(0, 1))
          /\ RealEq(Vc[3], c_S[N + 1])
          /\ RealEq(c_S[N + 1], SumOverBins(PlancherelIntegrand))
    /\ pc = "cell5" =>
          /\ RealEq(Vc[4], c_S[N + 1])
          /\ RealEq(c_S[N + 1], SumOverBins(ConjIntegrand))

\* a grid of four points or more on which the output is not constant, so
\* that the index read matters, and a price that is not zero
C26_Witness ==
    /\ pc = "cell4"
    /\ Len(c_S) >= 4
    /\ \E k \in 1..Len(c_S) : ~RealEq(c_S[k], c_S[(Len(c_S) \div 2) + 1])
    /\ ~RealEq(Vc[3], NoValue)
    /\ RealEq(Vc[3], SumOverBins(PlancherelIntegrand))

(***************************************************************************)
(* The singular entry of the payoff transform                              *)
(***************************************************************************)
Paid == pc = "paid"

\* lines 83-84 divide by 1 + xi_2 and by xi_2
DividesByZero(xiq, alpha) ==
    \/ IsZeroC(CAdd(OfReal(VInt(1)), Xi2(xiq, alpha)))
    \/ IsZeroC(Xi2(xiq, alpha))

\* C23: the index floor(len(G)/2) is the unique index at which xi is 0; the
\* general formula divides by zero at that index and at no other, and only
\* when alpha is 0 or -1.
C23_SingularIndex ==
    Paid =>
        /\ Len(pay.ret.G) = Len(xi)
        /\ Centre(Len(pay.ret.G)) \in 1..Len(xi)
        /\ \A i \in 1..Len(xi) : RZero(xi[i]) <=> i = Centre(Len(pay.ret.G))
        /\ \A i \in 1..Len(xi) :
              DividesByZero(xi[i], pay.alpha)
                  <=> (i = Centre(Len(pay.ret.G)) /\ pay.alpha \in {0, -1})

\* a grid of four points or more and a call of payoff with alpha = 0, where
\* the general formula divides by zero at the centre
C23_Witness ==
    /\ Paid
    /\ Len(xi) >= 4
    /\ pay.alpha = 0
    /\ DividesByZero(xi[Centre(Len(xi))], pay.alpha)
    /\ pay.ret.G[Centre(Len(xi))].form = "limit0"

\* the value of the general closed form at entry i for the call recorded
GeneralAt(i) == General(xi[i], pay.alpha, pay.ret.a, pay.ret.b, pay.ret.k, pay.C)

FrameOfG ==
    Paid =>
        /\ Len(pay.ret.G) = Len(xi)
        /\ pay.alpha \notin {0, -1} =>
              \A i \in 1..Len(xi) :
                  pay.ret.G[i].form = "general" /\ pay.ret.G[i].v = GeneralAt(i)
        /\ pay.alpha \in {0, -1} =>
              /\ Cardinality({i \in 1..Len(xi) : pay.ret.G[i].form # "general"}) = 1
              /\ pay.ret.G[Centre(Len(xi))].form # "general"
              /\ \A i \in 1..Len(xi) :
                    i # Centre(Len(xi)) => pay.ret.G[i].v = GeneralAt(i)

\* C24: when alpha is neither 0 nor -1 every entry of G is the value of the
\* general closed form; when alpha is 0 or -1 exactly the entry
\* floor(len(G)/2) is replaced and all the others are the general values;
\* the call of payoff leaves x and xi as they were.
C24_Frame ==
    /\ []FrameOfG
    /\ [][pc' = "paid" => (x' = x /\ xi' = xi)]_vars

C24_Witness ==
    /\ Paid
    /\ Len(xi) >= 4
    /\ pay.alpha = -1
    /\ pay.ret.G[Centre(Len(xi))].form = "limitm1"
    /\ pay.ret.G[1].form = "general"
    /\ pay.ret.G[Centre(Len(xi))].v # GeneralAt(Centre(Len(xi)))

(***************************************************************************)
(* Damping of the characteristic function and of the payoff                *)
(***************************************************************************)
DampedCell == pc = "damped"

\* the frequencies xi + 1j*a
ShiftedBy(a) == [j \in 1..Len(xi) |-> Cx(XiV(xi[j]), VInt(a))]

\* C25: for each option right the characteristic function is sampled at
\* xi + 1j*a where a is the damping exponent passed to payoff for that right:
\* a = alpha for the call, a = -alpha for the put.
C25_SameShift ==
    DampedCell =>
        /\ damp.call.call = 1
        /\ damp.call.alpha = damp.alpha
        /\ damp.xia_c = ShiftedBy(damp.call.alpha)
        /\ Len(damp.psi_c) = Len(xi)
        /\ damp.put.call = 0
        /\ damp.put.alpha = -damp.alpha
        /\ damp.xia_p = ShiftedBy(damp.put.alpha)
        /\ Len(damp.psi_p) = Len(xi)

\* the notebook's own setting: alpha = -1, so that the call and the put are
\* shifted in opposite directions, on a grid of four points or more
C25_Witness ==
    /\ DampedCell
    /\ damp.alpha = -1
    /\ Len(xi) >= 4
    /\ damp.xia_c # damp.xia_p
    /\ damp.xia_p[1].im = VInt(1)
    /\ damp.put.alpha = 1
    /\ Len(damp.put.ret.G) = Len(xi)

(***************************************************************************)
(* In-out partition in barrier_mc                                          *)
(***************************************************************************)
AllOnes == [j \in PathsOf |-> 1]
PlusExact(p, q) == [n \in DOMAIN p |-> p[n] + q[n]]

\* the numerators of the means of max(S_T - K, 0) and of max(K - S_T, 0)
VanillaCallSum == ExactSum(mc.ret.S, mc.K, TRUE, AllOnes, Len(mc.ret.S))
VanillaPutSum == ExactSum(mc.ret.S, mc.K, FALSE, AllOnes, Len(mc.ret.S))

\* C27: the hit flags take only the values 0 and 1, so C_ui + C_uo =
\* C_di + C_do = discounted mean of max(S_T - K, 0) and P_ui + P_uo =
\* P_di + P_do = discounted mean of max(K - S_T, 0) (all means over the same
\* samples, with the same discount factor).
C27_Partition ==
    Simulated =>
        /\ \A j \in PathsOf : mc.ret.mask_u[j] \in {0, 1} /\ mc.ret.mask_d[j] \in {0, 1}
        /\ PlusExact(mc.ret.sums.C_ui, mc.ret.sums.C_uo) = VanillaCallSum
        /\ PlusExact(mc.ret.sums.C_di, mc.ret.sums.C_do) = VanillaCallSum
        /\ PlusExact(mc.ret.sums.P_ui, mc.ret.sums.P_uo) = VanillaPutSum
        /\ PlusExact(mc.ret.sums.P_di, mc.ret.sums.P_do) = VanillaPutSum

\* a block in which one path is observed at or above the barrier more than
\* once and ends in the money, and the other path never reaches it, so that
\* the block mean splits into an up-and-in and an up-and-out part
C27_Witness ==
    /\ Simulated
    /\ Len(mc.ret.S) = 2
    /\ \E j \in PathsOf :
          /\ Cardinality({t \in DOMAIN mc.ret.S[j] : mc.ret.S[j][t] >= mc.ret.H}) >= 2
          /\ mc.ret.S[j][Len(mc.ret.S[j])] > mc.K
    /\ \E n \in DOMAIN mc.ret.sums.C_ui : mc.ret.sums.C_ui[n] # 0
    /\ \E n \in DOMAIN mc.ret.sums.C_uo : mc.ret.sums.C_uo[n] # 0
    /\ PlusExact(mc.ret.sums.C_ui, mc.ret.sums.C_uo) = VanillaCallSum

====
